---- MODULE Spec2Model ----
(***************************************************************************)
(* The asynchronous document-ingestion pipeline of the multi-tenant        *)
(* backend: the upload / retry / delete endpoints of                       *)
(* app/routers/document.py, the Celery tasks of                            *)
(* app/tasks/document_tasks.py and the Qdrant writer of                    *)
(* app/services/vector_store.py.                                           *)
(*                                                                         *)
(* Celery task ids and document ids are uuid4 values in the code; they are *)
(* drawn here from counters, so that "a fresh id" is "the next number"     *)
(* (a task id is the pair of its document and the document's next number). *)
(* A pipeline run is one process_document_pipeline message together with   *)
(* the chain of four stage tasks it queues; the chain delivers one message *)
(* at a time, so a run is a record with a position (pc).                   *)
(***************************************************************************)
EXTENDS Integers, Sequences, FiniteSets, TLC

\* ------------------------------------------------------------------ bounds
MaxDocs == 2
MaxRequests == 2
MaxPathLen == 4
MaxTexts == 3
MaxPages == 3
MaxBlocks == 3
MaxChunks == 12
MaxOcrPages == 2

\* ------------------------------------------------------- program constants
\* batch_size of upsert_to_qdrant_with_metadata
BatchSize == 100

\* SQL NULL / Python None for the nullable columns and the progress error
None == "<None>"
\* SQL NULL for the nullable integer column total_chunks
NoChunks == -1

Tenants == {"t1", "t2"}
DocIds == 1 .. MaxDocs

\* str(tenant.org_id) as a string of characters
TenantChars(t) == IF t = "t1" THEN <<"t", "1">> ELSE <<"t", "2">>

\* settings.UPLOAD_DIR = "./uploads"
UPLOAD_DIR == <<".", "/", "u", "p", "l", "o", "a", "d", "s">>

\* os.path.join(a, b) for a relative b
PathJoin(a, b) == a \o <<"/">> \o b

\* str.startswith
StartsWith(s, prefix) ==
    /\ Len(s) >= Len(prefix)
    /\ SubSeq(s, 1, Len(prefix)) = prefix

\* unique_filename = f"{uuid.uuid4()}{file_ext}": one fresh name per upload
DocChars == <<"a", "b", "c", "d", "e", "g", "h">>
UniqueFilename(d) == <<"f", DocChars[d]>>

\* the number of chunks the chunker cuts from an uploaded file's text
ChunkCounts == {1, BatchSize + 1}

\* str(e) of the exceptions a stage can meet from outside (a soft time limit
\* raises SoftTimeLimitExceeded(), whose message is empty)
StageErrors == {"", "boom"}

VARIABLES
    docs,        \* the documents table: doc_id -> row (present = FALSE: no row)
    files,       \* the files on disk: path -> number of chunks the file's text is cut into
    progress,    \* the progress store: doc_id -> NoKey or {percent, step, error}
    runs,        \* pipeline runs: run id -> record
    tasks,       \* queued retry_failed / delete_vectors messages
    httpRetry,   \* doc_id -> number of retry requests between their SELECT and their COMMIT
    collections, \* names of the Qdrant collections that exist
    points,      \* the points stored in Qdrant, one record per upserted batch
    nextId,      \* doc_id -> number of Celery task ids drawn for the document so far
    nextDoc,     \* the next fresh document id
    requests,    \* client requests made so far (bounded by MaxRequests)
    resp,        \* the outcome of the last retry call
    overlapped,  \* doc_ids that have been retried outside normal operation
    call,        \* one call of a library function: its arguments and its result
    written      \* the percent values written to the progress store, in order

vars == <<docs, files, progress, runs, tasks, httpRetry, collections, points,
          nextId, nextDoc, requests, resp, overlapped, call, written>>

\* ---------------------------------------------------------------- helpers
CollectionName(t) == <<"tenant", t>>

\* current_user.user_id of the caller, a user of tenant t
UserOf(t) == IF t = "t1" THEN "user of t1" ELSE "user of t2"

NoRow ==
    [present |-> FALSE, tenant_id |-> None, file_path |-> <<>>,
     processing_status |-> None, total_chunks |-> NoChunks,
     error_message |-> None, uploaded_by |-> None]

\* a row after db.delete(document): gone; the two columns kept name whose it was
Deleted(row) ==
    [NoRow EXCEPT !.tenant_id = row.tenant_id, !.uploaded_by = row.uploaded_by]

\* Python truthiness of a str-or-None value
Truthy(s) == s # None /\ s # ""

\* the progress store holds no key progress:<document_id>
NoKey == [percent |-> -1, step |-> None, error |-> None]

\* no library call is under way
NoCall == [fn |-> "none"]

\* the outcome of a retry call
Response(op, d, code) == [op |-> op, doc |-> d, code |-> code]

\* update_progress: SETEX progress:<document_id>
UpdateProgress(p, d, percent, step, error) ==
    [p EXCEPT ![d] = [percent |-> percent, step |-> step, error |-> error]]

\* update_document_status
UpdateDocumentStatus(dd, d, status, total_chunks, error_message) ==
    IF dd[d].present
    THEN [dd EXCEPT ![d] =
            [@ EXCEPT !.processing_status = status,
                      !.total_chunks =
                          IF total_chunks # NoChunks THEN total_chunks ELSE @,
                      !.error_message =
                          IF Truthy(error_message) THEN error_message ELSE @]]
    ELSE dd

\* the tenant-prefix test of extract_pdf_text_task
PathAllowed(tenant_id, file_path) ==
    StartsWith(file_path, PathJoin(UPLOAD_DIR, TenantChars(tenant_id)))

\* save_upload_file: the path an upload of tenant t is stored under
SavedPath(t, d) ==
    PathJoin(PathJoin(UPLOAD_DIR, TenantChars(t)), UniqueFilename(d))

\* os.path.exists
FileExists(path) == path \in DOMAIN files

\* os.remove (delete_document removes the file only if it exists)
Remove(ff, path) == [q \in DOMAIN ff \ {path} |-> ff[q]]

\* mutant: the query filters on doc_id alone
FoundForAnyTenant(dd, t, d) == dd[d].present

\* db.query(Document).filter(doc_id == d, tenant_id == t).first() is not None
FoundForTenant(dd, t, d) == dd[d].present /\ dd[d].tenant_id = t

\* mutant: the endpoint retries whatever the status
HttpRetryAllowedAlways(status) == TRUE

\* the status test of the HTTP retry endpoint
HttpRetryAllowed(status) == status = "failed"

\* mutant: the task also retries a document that is being processed
TaskRetryAllowedProcessing(status) == status \in {"failed", "pending", "processing"}

\* the status test of retry_failed_document_task
TaskRetryAllowed(status) == status \in {"failed", "pending"}

\* a process_document_pipeline message (retry: queued by retry_failed_document_task)
NewRun(t, d, path, retry) ==
    [tenant_id |-> t, document_id |-> d, file_path |-> path, pc |-> "queued",
     pages |-> NoChunks, chunks |-> NoChunks, embeddings |-> NoChunks,
     written |-> 0, uploaded_by |-> None, retry |-> retry]

\* mutant: the id of the document's first task is handed out again
FreshIdReused(d) == <<d, 1>>

\* uuid4(): a task id no earlier task has
FreshId(d) == <<d, nextId[d] + 1>>
DrawId(d) == [nextId EXCEPT ![d] = @ + 1]

RunIds == DOMAIN runs
Live(r) == runs[r].pc \notin {"done", "failed"}
LiveRuns(d) == {r \in RunIds : runs[r].document_id = d /\ Live(r)}

\* ------------------------------------------------------------------- Init
Init ==
    /\ docs = [d \in DocIds |-> NoRow]
    /\ files = <<>>
    /\ progress = [d \in DocIds |-> NoKey]
    /\ runs = <<>>
    /\ tasks = {}
    /\ httpRetry = [d \in DocIds |-> 0]
    /\ collections = {}
    /\ points = {}
    /\ nextId = [d \in DocIds |-> 0]
    /\ nextDoc = 1
    /\ requests = 0
    /\ resp = Response("none", 0, "none")
    /\ overlapped = {}
    /\ call = NoCall
    /\ written = <<>>

\* ----------------------------------------------------------------- upload
\* POST /upload: save the file, insert the row, queue process_document_pipeline
Upload(t, n) ==
    /\ nextDoc <= MaxDocs
    /\ requests < MaxRequests
    /\ requests' = requests + 1
    /\ LET d == nextDoc
           path == SavedPath(t, d)
       IN /\ files' = (path :> n) @@ files
          /\ docs' = [docs EXCEPT ![d] =
                [present |-> TRUE, tenant_id |-> t, file_path |-> path,
                 processing_status |-> "pending", total_chunks |-> NoChunks,
                 error_message |-> None, uploaded_by |-> UserOf(t)]]
          /\ runs' = runs @@ (FreshId(d) :> NewRun(t, d, path, FALSE))
          /\ nextId' = DrawId(d)
    /\ nextDoc' = nextDoc + 1
    /\ UNCHANGED <<call, written, progress, tasks, httpRetry, collections, points, resp,
                   overlapped>>

\* ------------------------------------------------------------ stage tasks
SetPc(r, pc) == [runs EXCEPT ![r].pc = pc]

\* mutant: the chain goes on to the next task after a task raised
RaisedChainGoesOn(run) == [run EXCEPT !.pc = "chunk", !.pages = 1]

\* a task that raised: its locals are gone, the chain stops
Raised(run) ==
    [NewRun(run.tenant_id, run.document_id, run.file_path, run.retry)
        EXCEPT !.pc = "failed"]

\* the except-handler shared by the four stage tasks and the orchestrator:
\* update_progress(0, "failed", str(e)); update_document_status("failed", str(e)); raise
Handler(r, msg) ==
    LET d == runs[r].document_id
    IN /\ progress' = UpdateProgress(progress, d, 0, "failed", msg)
       /\ docs' = UpdateDocumentStatus(docs, d, "failed", NoChunks, msg)
       /\ runs' = [runs EXCEPT ![r] = Raised(@)]

\* process_document_pipeline: chain(...).apply_async()
PipelineEnqueue(r) ==
    /\ runs[r].pc = "queued"
    /\ runs' = SetPc(r, "extract")
    /\ UNCHANGED <<call, written, docs, files, progress, tasks, httpRetry, collections,
                   points, nextId, nextDoc, requests, resp, overlapped>>

\* process_document_pipeline when apply_async raises (broker unreachable)
PipelineEnqueueFail(r) ==
    /\ runs[r].pc = "queued"
    /\ Handler(r, "broker unreachable")
    /\ UNCHANGED <<call, written, files, tasks, httpRetry, collections, points, nextId,
                   nextDoc, requests, resp, overlapped>>

\* extract_pdf_text_task, up to the status write
ExtractStart(r) ==
    /\ runs[r].pc = "extract"
    /\ LET d == runs[r].document_id
       IN /\ progress' = UpdateProgress(progress, d, 5, "starting", None)
          /\ docs' = UpdateDocumentStatus(docs, d, "processing", NoChunks, None)
    /\ runs' = SetPc(r, "extracting")
    /\ UNCHANGED <<call, written, files, tasks, httpRetry, collections, points, nextId,
                   nextDoc, requests, resp, overlapped>>

\* extract_pdf_text_task, from the security validation to the return
ExtractFinish(r) ==
    /\ runs[r].pc = "extracting"
    /\ LET d == runs[r].document_id
       IN IF ~PathAllowed(runs[r].tenant_id, runs[r].file_path)
          THEN Handler(r, "Invalid file path for tenant")
          ELSE IF ~FileExists(runs[r].file_path)
          THEN Handler(r, "File not found")
          ELSE /\ progress' = UpdateProgress(progress, d, 25, "text_extracted", None)
               /\ runs' = [runs EXCEPT ![r].pc = "chunk", ![r].pages = files[runs[r].file_path]]
               /\ docs' = docs
    /\ UNCHANGED <<call, written, files, tasks, httpRetry, collections, points, nextId,
                   nextDoc, requests, resp, overlapped>>

\* chunk_text_task: the page texts travel in the message
ChunkTask(r) ==
    /\ runs[r].pc = "chunk"
    /\ progress' = UpdateProgress(progress, runs[r].document_id, 50,
                                  "chunks_stored", None)
    /\ runs' = [runs EXCEPT ![r].pc = "embed", ![r].chunks = runs[r].pages]
    /\ UNCHANGED <<call, written, docs, files, tasks, httpRetry, collections, points, nextId,
                   nextDoc, requests, resp, overlapped>>

\* mutant: the length test is left out
CountsMatchSkipped(embeddings, chunks) == TRUE

\* the length test of generate_embeddings_task
CountsMatch(embeddings, chunks) == embeddings = chunks

\* generate_embeddings_task: the backend returns k embeddings
EmbedTask(r, k) ==
    /\ runs[r].pc = "embed"
    /\ IF ~CountsMatch(k, runs[r].chunks)
       THEN Handler(r, "Embedding count mismatch")
       ELSE /\ progress' = UpdateProgress(progress, runs[r].document_id, 75,
                                          "embeddings_generated", None)
            /\ runs' = [runs EXCEPT ![r].pc = "upsert", ![r].embeddings = k]
            /\ docs' = docs
    /\ UNCHANGED <<call, written, files, tasks, httpRetry, collections, points, nextId,
                   nextDoc, requests, resp, overlapped>>

\* mutant: one collection for every tenant
TargetCollectionShared(tenant_id) == CollectionName("t1")

\* collection_name of upsert_vectors_task
TargetCollection(tenant_id) == CollectionName(tenant_id)

\* upsert_vectors_task up to ensure_collection_exists' get_collections():
\* progress 80, the metadata read, the collection test
UpsertStart(r) ==
    /\ runs[r].pc = "upsert"
    /\ LET d == runs[r].document_id
           name == TargetCollection(runs[r].tenant_id)
       IN IF ~docs[d].present
          THEN Handler(r, "Document not found")
          ELSE /\ progress' = UpdateProgress(progress, d, 80, "upserting_vectors", None)
               /\ runs' = [runs EXCEPT
                     ![r].pc = IF name \in collections THEN "batch" ELSE "create",
                     ![r].uploaded_by = docs[d].uploaded_by]
               /\ docs' = docs
    /\ UNCHANGED <<call, written, files, tasks, httpRetry, collections, points, nextId,
                   nextDoc, requests, resp, overlapped>>

\* ensure_collection_exists: client.create_collection (Qdrant refuses to
\* create a collection that exists)
CreateCollection(r) ==
    /\ runs[r].pc = "create"
    /\ LET name == TargetCollection(runs[r].tenant_id)
       IN IF name \in collections
          THEN /\ Handler(r, "Collection already exists")
               /\ collections' = collections
          ELSE /\ collections' = collections \cup {name}
               /\ runs' = SetPc(r, "batch")
               /\ UNCHANGED <<docs, progress>>
    /\ UNCHANGED <<call, written, files, tasks, httpRetry, points, nextId, nextDoc, requests,
                   resp, overlapped>>

\* the payload upsert_to_qdrant_with_metadata builds for the points of a batch
Payload(tenant_id, document_id, uploaded_by) ==
    [tenant_id |-> tenant_id, document_id |-> document_id,
     uploaded_by |-> uploaded_by]

\* the points of the batch starting at offset i: zip(chunks, embeddings)[i : i + batch_size]
BatchCount(n, i) == IF n - i < BatchSize THEN n - i ELSE BatchSize

\* upsert_to_qdrant_with_metadata: one client.upsert of the batch loop; after
\* the last batch upsert_vectors_task records progress 90, completed, 100
UpsertBatch(r) ==
    /\ runs[r].pc = "batch"
    /\ LET d == runs[r].document_id
           n == IF runs[r].embeddings < runs[r].chunks
                THEN runs[r].embeddings ELSE runs[r].chunks
           i == runs[r].written
           c == BatchCount(n, i)
           name == TargetCollection(runs[r].tenant_id)
       IN /\ name \in collections
          /\ points' = points \cup
               {[collection |-> name, run |-> r, first |-> i, count |-> c,
                 payload |-> Payload(runs[r].tenant_id, d, runs[r].uploaded_by)] :
                x \in IF c > 0 THEN {0} ELSE {}}
          /\ IF i + c < n
             THEN /\ runs' = [runs EXCEPT ![r].written = i + c]
                  /\ UNCHANGED <<docs, progress>>
             ELSE /\ runs' = [runs EXCEPT ![r].written = i + c, ![r].pc = "done"]
                  /\ docs' = UpdateDocumentStatus(docs, d, "completed",
                                                  runs[r].chunks, None)
                  /\ progress' = UpdateProgress(progress, d, 100, "completed", None)
    /\ UNCHANGED <<call, written, files, tasks, httpRetry, collections, nextId, nextDoc,
                   requests, resp, overlapped>>

\* a stage task meets an exception from outside (a soft time limit, a network
\* error of the embedding backend or of Qdrant, an unreadable PDF): its handler runs
StageFail(r, msg) ==
    /\ runs[r].pc \in {"extracting", "chunk", "embed", "upsert", "create", "batch"}
    /\ Handler(r, msg)
    /\ UNCHANGED <<call, written, files, tasks, httpRetry, collections, points, nextId,
                   nextDoc, requests, resp, overlapped>>


\* ------------------------------------------------------------------ retry
\* POST /{doc_id}/retry, from the SELECT to the status test
HttpRetryCheck(t, d) ==
    /\ requests < MaxRequests
    /\ requests' = requests + 1
    /\ IF ~FoundForTenant(docs, t, d)
       THEN /\ resp' = Response("http_retry", d, "404 not found")
            /\ UNCHANGED <<httpRetry, overlapped>>
       ELSE IF ~HttpRetryAllowed(docs[d].processing_status)
       THEN /\ resp' = Response("http_retry", d, "400 cannot retry")
            /\ UNCHANGED <<httpRetry, overlapped>>
       ELSE /\ httpRetry' = [httpRetry EXCEPT ![d] = @ + 1]
            /\ overlapped' = IF httpRetry[d] > 0 THEN overlapped \cup {d}
                                                 ELSE overlapped
            /\ resp' = resp
    /\ UNCHANGED <<call, written, docs, files, progress, runs, tasks, collections, points,
                   nextId, nextDoc>>

\* a retry_failed_document_task message
RetryMessage(id, t, d) ==
    [kind |-> "retry_failed", id |-> id, tenant_id |-> t, document_id |-> d,
     pc |-> "queued", file_path |-> <<>>]

\* POST /{doc_id}/retry, the commit and retry_failed_document_task.apply_async
\* (the UPDATE of a row deleted in between matches nothing: the request ends 500)
HttpRetryCommit(d) ==
    /\ httpRetry[d] > 0
    /\ httpRetry' = [httpRetry EXCEPT ![d] = @ - 1]
    /\ IF docs[d].present
       THEN /\ docs' = [docs EXCEPT ![d].processing_status = "pending",
                                    ![d].error_message = None]
            /\ tasks' = tasks \cup {RetryMessage(FreshId(d), docs[d].tenant_id, d)}
            /\ nextId' = DrawId(d)
            /\ resp' = Response("http_retry", d, "200 queued")
       ELSE /\ resp' = Response("http_retry", d, "500")
            /\ UNCHANGED <<docs, tasks, nextId>>
    /\ UNCHANGED <<call, written, files, progress, runs, collections, points, nextDoc, requests,
                   overlapped>>

\* retry_failed_document_task queued by a caller other than the retry endpoint
RetryTaskInvoke(t, d) ==
    /\ requests < MaxRequests
    /\ nextDoc > d
    /\ requests' = requests + 1
    /\ tasks' = tasks \cup {RetryMessage(FreshId(d), t, d)}
    /\ nextId' = DrawId(d)
    /\ overlapped' = overlapped \cup {d}
    /\ UNCHANGED <<call, written, docs, files, progress, runs, httpRetry, collections, points,
                   nextDoc, resp>>

\* retry_failed_document_task, the session that reads the row
RetryTaskCheck(k) ==
    /\ k \in tasks
    /\ k.kind = "retry_failed"
    /\ k.pc = "queued"
    /\ LET d == k.document_id
       IN IF ~FoundForTenant(docs, k.tenant_id, d)
          THEN /\ tasks' = tasks \ {k}
               /\ resp' = Response("retry_task", d, "not found")
          ELSE IF ~TaskRetryAllowed(docs[d].processing_status)
          THEN /\ tasks' = tasks \ {k}
               /\ resp' = Response("retry_task", d, "not in failed state")
          ELSE /\ tasks' = (tasks \ {k}) \cup
                      {[k EXCEPT !.pc = "checked", !.file_path = docs[d].file_path]}
               /\ resp' = resp
    /\ UNCHANGED <<call, written, docs, files, progress, runs, httpRetry, collections, points,
                   nextId, nextDoc, requests, overlapped>>

\* retry_failed_document_task, the reset and process_document_pipeline.apply_async
RetryTaskRequeue(k) ==
    /\ k \in tasks
    /\ k.kind = "retry_failed"
    /\ k.pc = "checked"
    /\ LET d == k.document_id
       IN /\ docs' = UpdateDocumentStatus(docs, d, "pending", NoChunks, None)
          /\ progress' = UpdateProgress(progress, d, 0, "retrying", None)
          /\ runs' = runs @@ (FreshId(d) :> NewRun(k.tenant_id, d, k.file_path, TRUE))
          /\ nextId' = DrawId(d)
          /\ resp' = Response("retry_task", d, "queued")
    /\ tasks' = tasks \ {k}
    /\ UNCHANGED <<call, written, files, httpRetry, collections, points, nextDoc, requests,
                   overlapped>>

\* ----------------------------------------------------------------- delete
\* mutant: the vectors are cleaned up whatever the status
CleanupScheduledAlways(status) == TRUE

\* the test of delete_document that schedules the vector cleanup
CleanupScheduled(status) == status = "completed"

\* DELETE /{doc_id}
DeleteDocument(t, d) ==
    /\ requests < MaxRequests
    /\ requests' = requests + 1
    /\ FoundForTenant(docs, t, d)
    /\ tasks' = IF CleanupScheduled(docs[d].processing_status)
                THEN tasks \cup {[kind |-> "delete_vectors", id |-> FreshId(d),
                                  tenant_id |-> t, document_id |-> d,
                                  pc |-> "queued", file_path |-> <<>>]}
                ELSE tasks
    /\ nextId' = IF CleanupScheduled(docs[d].processing_status)
                 THEN DrawId(d) ELSE nextId
    /\ files' = Remove(files, docs[d].file_path)
    /\ docs' = [docs EXCEPT ![d] = Deleted(@)]
    /\ UNCHANGED <<call, written, progress, runs, httpRetry, collections, points, nextDoc,
                   resp, overlapped>>

\* mutant: the filter is left out, the whole collection is selected
SelectedWholeCollection(name, d) == {p \in points : p.collection = name}

\* delete_document_from_qdrant: the points the filter document_id == d selects
Selected(name, d) ==
    {p \in points : p.collection = name /\ p.payload.document_id = d}

\* delete_document_vectors_task (Qdrant refuses a delete on a missing collection)
DeleteVectorsTask(k) ==
    /\ k \in tasks
    /\ k.kind = "delete_vectors"
    /\ tasks' = tasks \ {k}
    /\ LET name == CollectionName(k.tenant_id)
       IN points' = IF name \in collections
                    THEN points \ Selected(name, k.document_id)
                    ELSE points
    /\ UNCHANGED <<call, written, docs, files, progress, runs, httpRetry, collections, nextId,
                   nextDoc, requests, resp, overlapped>>

\* ------------------------------------------------------------------- Next
Next ==
    \/ \E t \in Tenants, n \in ChunkCounts : Upload(t, n)
    \/ \E r \in RunIds : PipelineEnqueue(r)
    \/ \E r \in RunIds : PipelineEnqueueFail(r)
    \/ \E r \in RunIds : ExtractStart(r)
    \/ \E r \in RunIds : ExtractFinish(r)
    \/ \E r \in RunIds : ChunkTask(r)
    \/ \E r \in RunIds : \E k \in {runs[r].chunks, runs[r].chunks - 1} : EmbedTask(r, k)
    \/ \E r \in RunIds : UpsertStart(r)
    \/ \E r \in RunIds : CreateCollection(r)
    \/ \E r \in RunIds : UpsertBatch(r)
    \/ \E r \in RunIds, msg \in StageErrors : StageFail(r, msg)
    \/ \E t \in Tenants, d \in DocIds : HttpRetryCheck(t, d)
    \/ \E d \in DocIds : HttpRetryCommit(d)
    \/ \E t \in Tenants, d \in DocIds : RetryTaskInvoke(t, d)
    \/ \E k \in tasks : RetryTaskCheck(k)
    \/ \E k \in tasks : RetryTaskRequeue(k)
    \/ \E t \in Tenants, d \in DocIds : DeleteDocument(t, d)
    \/ \E k \in tasks : DeleteVectorsTask(k)

Spec == Init /\ [][Next]_vars

\* ================================================================= claims
Status(d) == docs[d].processing_status

\* retries of document d that have been accepted and have not queued their run yet
PendingRetries(d) ==
    httpRetry[d]
    + Cardinality({k \in tasks : k.kind = "retry_failed" /\ k.document_id = d})

\* normal operation for document d: every retry went through the retry
\* endpoint, and no two retry requests for d were in flight together
Normal(d) == d \notin overlapped

RECURSIVE SumCounts(_)
SumCounts(S) ==
    IF S = {} THEN 0
    ELSE LET p == CHOOSE q \in S : TRUE IN p.count + SumCounts(S \ {p})

\* the points stored for document d in the collection of its tenant
PointsOfDoc(d) == Selected(CollectionName(docs[d].tenant_id), d)
\* the points run r upserted that are stored
PointsOfRun(r) == {p \in points : p.run = r}

SpecTransitions ==
    {<<"pending", "processing">>, <<"processing", "completed">>,
     <<"processing", "failed">>, <<"failed", "pending">>}

\* the status changes of document d in a step
Changed(d) ==
    /\ docs[d].present
    /\ docs'[d].present
    /\ Status(d)' # Status(d)

\* C1 (as stated): under every interleaving a document's processing_status
\* changes only along pending->processing, processing->completed,
\* processing->failed and failed->pending.
C1_OnlySpecTransitions ==
    [][\A d \in DocIds :
          Changed(d) => <<Status(d), Status(d)'>> \in SpecTransitions]_vars

\* C1 (amended): in normal operation the status changes only along the four
\* transitions of the state machine and along pending->failed, which
\* process_document_pipeline takes when it cannot queue the chain.
C1_NormalTransitions ==
    [][\A d \in DocIds :
          (Changed(d) /\ Normal(d)') =>
              <<Status(d), Status(d)'>> \in
                  SpecTransitions \cup {<<"pending", "failed">>}]_vars

\* C1 witness: a document retried through the endpoint is being processed again
C1_Witness ==
    \E r \in RunIds :
        /\ runs[r].retry
        /\ runs[r].pc = "extracting"
        /\ Normal(runs[r].document_id)
        /\ Status(runs[r].document_id) = "processing"

StagePcs == {"extracting", "chunk", "embed", "upsert", "create", "batch"}

\* C2: whenever a stage task's handler has run for an exception, the document
\* is failed, its error_message is the exception's message (the one the
\* handler also writes to the progress record) and progress is {0, "failed", message}.
C2_HandlerRecordsMessage ==
    [][\A r \in RunIds :
          LET d == runs[r].document_id
          IN (runs[r].pc \in StagePcs /\ runs'[r].pc = "failed" /\ docs[d].present) =>
                /\ Status(d)' = "failed"
                /\ progress'[d].percent = 0
                /\ progress'[d].step = "failed"
                /\ docs'[d].error_message = progress'[d].error]_vars

\* C3: when a run queued by a retry has completed, the tenant's collection
\* holds for the document exactly the points of that run, one per chunk.
C3_RetryReplacesPoints ==
    \A r \in RunIds :
        LET d == runs[r].document_id
        IN (runs[r].retry /\ runs[r].pc = "done" /\ Normal(d) /\ docs[d].present) =>
              /\ PointsOfDoc(d) = PointsOfRun(r)
              /\ SumCounts(PointsOfDoc(d)) = runs[r].chunks

\* a retry_failed message whose row read succeeded: the call is accepted
Accepted(k) == k.kind = "retry_failed" /\ k.pc = "checked"

\* the step accepts a retry of document d
AcceptsHttp(d) == httpRetry'[d] > httpRetry[d]
AcceptsTask(d) ==
    \E k \in tasks' : Accepted(k) /\ k.document_id = d /\ k \notin tasks

\* the step is a retry call on d that is refused
RefusesHttp(t, d) ==
    HttpRetryCheck(t, d) /\ FoundForTenant(docs, t, d) /\ ~AcceptsHttp(d)
RefusesTask(k) ==
    RetryTaskCheck(k) /\ FoundForTenant(docs, k.tenant_id, k.document_id)
                      /\ ~AcceptsTask(k.document_id)

\* a refused call enqueues nothing and leaves the record and the progress alone
NothingChanged == UNCHANGED <<docs, progress, runs, httpRetry>> /\ tasks' \subseteq tasks

\* C4 (as stated): on a document that is pending, processing or completed both
\* the retry endpoint and retry_failed_document_task refuse, enqueue nothing
\* and leave status, error_message and progress unchanged.
C4_BothRefuseUnlessFailed ==
    [][\A d \in DocIds :
          (docs[d].present /\ Status(d) # "failed") =>
              /\ ~AcceptsHttp(d)
              /\ ~AcceptsTask(d)
              /\ \A t \in Tenants : HttpRetryCheck(t, d) => NothingChanged
              /\ \A k \in tasks :
                    (k.document_id = d /\ RetryTaskCheck(k)) => NothingChanged]_vars

\* C4 (amended): the retry endpoint refuses every status but failed;
\* retry_failed_document_task refuses processing and completed and accepts
\* failed and pending; a refused call enqueues nothing and leaves status,
\* error_message and progress unchanged.
C4_RefusalByEntryPoint ==
    [][\A d \in DocIds :
          /\ (docs[d].present /\ Status(d) # "failed") => ~AcceptsHttp(d)
          /\ (docs[d].present /\ Status(d) \in {"processing", "completed"}) =>
                ~AcceptsTask(d)
          /\ \A t \in Tenants : RefusesHttp(t, d) => NothingChanged
          /\ \A k \in tasks :
                /\ (k.document_id = d /\ RefusesTask(k)) => NothingChanged
                /\ (/\ k.document_id = d
                    /\ RetryTaskCheck(k)
                    /\ FoundForTenant(docs, k.tenant_id, d)
                    /\ Status(d) \in {"failed", "pending"}) => AcceptsTask(d)]_vars

\* C4 witness: the endpoint has refused a retry of a document that is being processed
C4_Witness ==
    \E d \in DocIds :
        /\ resp = Response("http_retry", d, "400 cannot retry")
        /\ docs[d].present
        /\ Status(d) = "processing"

\* --------------------------------------------- stage 1 on any message
\* extract_pdf_text_task takes tenant_id and file_path from its message: the
\* messages here carry any tenant and any path built from these segments
PathRoots == {UPLOAD_DIR, <<".", "/", "d", "a", "t", "a">>}
PathSegments ==
    {TenantChars("t1"), TenantChars("t2"), <<".", ".">>, <<"f", "a">>,
     <<"t", "1", "x">>}

RECURSIVE PathsFrom(_, _)
PathsFrom(base, n) ==
    IF n = 0 THEN {}
    ELSE LET next == {PathJoin(base, seg) : seg \in PathSegments}
         IN next \cup UNION {PathsFrom(q, n - 1) : q \in next}

PathInputs == UNION {PathsFrom(root, MaxPathLen) : root \in PathRoots}

\* one document of tenant owner, one extract_pdf_text_task message for it
\* carrying (t, path); the path names a file (of one chunk) or nothing
InitPath ==
    \E owner \in Tenants, t \in Tenants, path \in PathInputs, there \in BOOLEAN :
        /\ docs = [d \in DocIds |->
              IF d = 1
              THEN [present |-> TRUE, tenant_id |-> owner, file_path |-> path,
                    processing_status |-> "pending", total_chunks |-> NoChunks,
                    error_message |-> None, uploaded_by |-> UserOf(owner)]
              ELSE NoRow]
        /\ files = IF there THEN (path :> 1) ELSE <<>>
        /\ progress = [d \in DocIds |-> NoKey]
        /\ runs = (<<1, 1>> :> [NewRun(t, 1, path, FALSE) EXCEPT !.pc = "extract"])
        /\ tasks = {}
        /\ httpRetry = [d \in DocIds |-> 0]
        /\ collections = {}
        /\ points = {}
        /\ nextId = [d \in DocIds |-> IF d = 1 THEN 1 ELSE 0]
        /\ nextDoc = 2
        /\ requests = 0
        /\ resp = Response("none", 0, "none")
        /\ overlapped = {}
        /\ call = NoCall
        /\ written = <<>>

NextPath == \E r \in RunIds : ExtractStart(r) \/ ExtractFinish(r)

SpecPath == InitPath /\ [][NextPath]_vars

\* the segments of a path: str.split("/")
RECURSIVE Split(_)
Split(s) ==
    IF s = <<>> THEN << <<>> >>
    ELSE LET rest == Split(Tail(s))
         IN IF Head(s) = "/"
            THEN << <<>> >> \o rest
            ELSE << <<Head(s)>> \o Head(rest) >> \o Tail(rest)

\* the directory walk of a relative path: "" and "." stay, ".." goes up
RECURSIVE Resolve(_, _)
Resolve(segs, at) ==
    IF segs = <<>> THEN at
    ELSE LET seg == Head(segs)
         IN IF seg = <<>> \/ seg = <<".">>
            THEN Resolve(Tail(segs), at)
            ELSE IF seg = <<".", ".">> /\ at # <<>> /\ at[Len(at)] # <<".", ".">>
            THEN Resolve(Tail(segs), SubSeq(at, 1, Len(at) - 1))
            ELSE Resolve(Tail(segs), Append(at, seg))

\* the file the path names lies in UPLOAD_DIR/<tenant_id>/
InsideTenantDir(tenant_id, file_path) ==
    LET dir == Resolve(Split(PathJoin(UPLOAD_DIR, TenantChars(tenant_id))), <<>>)
        at == Resolve(Split(file_path), <<>>)
    IN Len(at) >= Len(dir) /\ SubSeq(at, 1, Len(dir)) = dir

\* C8: a message whose file_path does not lie in its tenant's upload directory
\* never gets past stage 1's path test: the task reads nothing of the file, and
\* when it has ended it has failed with the PermissionError, not on the
\* existence test.
C8_OutsidePathRefused ==
    \A r \in RunIds :
        ~InsideTenantDir(runs[r].tenant_id, runs[r].file_path) =>
            /\ runs[r].pc # "chunk"
            /\ runs[r].pc = "failed" =>
                  progress[runs[r].document_id].error = "Invalid file path for tenant"

\* the runs of document d queued by the step
NewRuns(d) == {r \in DOMAIN runs' \ RunIds : runs'[r].document_id = d}

\* C5: a retry of a completed document is refused and leaves it completed; a
\* retry of a failed document that the endpoint commits sets the status to
\* pending and queues retry_failed_document_task, which in normal operation
\* accepts a document still there, sets pending again and queues one pipeline
\* run whose id no earlier run of the document has.
C5_RetrySemantics ==
    [][\A d \in DocIds :
          /\ (docs[d].present /\ Status(d) = "completed") =>
                /\ ~AcceptsHttp(d)
                /\ ~AcceptsTask(d)
                /\ \A t \in Tenants : HttpRetryCheck(t, d) => NothingChanged
                /\ \A k \in tasks :
                      (k.document_id = d /\ RetryTaskCheck(k)) => NothingChanged
          /\ (HttpRetryCommit(d) /\ docs[d].present) =>
                /\ Status(d)' = "pending"
                /\ \E k \in tasks' \ tasks :
                      k.kind = "retry_failed" /\ k.document_id = d
          /\ \A k \in tasks :
                (/\ k.document_id = d
                 /\ Normal(d)
                 /\ docs[d].present
                 /\ RetryTaskCheck(k)) => AcceptsTask(d)
          /\ \A k \in tasks :
                (k.document_id = d /\ RetryTaskRequeue(k)) =>
                    /\ docs[d].present => Status(d)' = "pending"
                    /\ \E r \in NewRuns(d) :
                          /\ NewRuns(d) = {r}
                          /\ runs'[r].pc = "queued"
                          /\ runs'[r].retry
                          /\ \A q \in RunIds : q # r /\ runs'[q] = runs[q]]_vars

\* C5 witness: a failed run, then the retry's run queued under another id, the
\* document pending again
C5_Witness ==
    \E r, q \in RunIds :
        /\ r # q
        /\ runs[r].document_id = runs[q].document_id
        /\ runs[r].pc = "failed"
        /\ runs[q].retry
        /\ runs[q].pc = "queued"
        /\ Status(runs[q].document_id) = "pending"
        /\ resp = Response("retry_task", runs[q].document_id, "queued")
        /\ Normal(runs[q].document_id)

\* C6: whenever stage 1 of a run queued by a retry starts, it has the
\* document's stored file_path and the document's error_message is null.
C6_RetryStartsClean ==
    [][\A r \in RunIds :
          LET d == runs[r].document_id
          IN (/\ runs[r].retry
              /\ runs[r].pc = "extract"
              /\ runs'[r].pc = "extracting"
              /\ docs[d].present) =>
                /\ runs[r].file_path = docs[d].file_path
                /\ docs[d].error_message = None]_vars

\* C7 (as stated): under every interleaving at most one pipeline run of a
\* document is queued or executing.
C7_AtMostOneRun ==
    \A d \in DocIds : Cardinality(LiveRuns(d)) <= 1

\* C7 (amended): in normal operation at most one pipeline run of a document is
\* queued or executing, counting a retry that has been accepted and has not
\* queued its run yet.
C7_AtMostOneRunWhenNormal ==
    \A d \in DocIds :
        Normal(d) => Cardinality(LiveRuns(d)) + PendingRetries(d) <= 1

\* C7 witness: a run queued through the retry endpoint executes, alone
C7_Witness ==
    \E r \in RunIds :
        /\ runs[r].retry
        /\ runs[r].pc = "embed"
        /\ Normal(runs[r].document_id)
        /\ LiveRuns(runs[r].document_id) = {r}

\* C9: every point of collection tenant_<T> carries tenant_id T, the id of a
\* document of T and that document's metadata; every run and every queued
\* task that reads or writes vectors carries the tenant that owns its document.
C9_TenantIsolation ==
    /\ \A p \in points :
          /\ p.collection = CollectionName(p.payload.tenant_id)
          /\ docs[p.payload.document_id].tenant_id = p.payload.tenant_id
          /\ p.payload.uploaded_by = docs[p.payload.document_id].uploaded_by
          /\ p.payload.uploaded_by = UserOf(p.payload.tenant_id)
    /\ \A r \in RunIds : runs[r].tenant_id = docs[runs[r].document_id].tenant_id
    /\ \A k \in tasks :
          (k.kind = "delete_vectors" \/ Accepted(k)) =>
              k.tenant_id = docs[k.document_id].tenant_id

\* C9 witness: two tenants have each their points, in two collections
C9_Witness ==
    \E p, q \in points :
        /\ p.payload.tenant_id = "t1"
        /\ q.payload.tenant_id = "t2"
        /\ p.collection # q.collection

\* C10: for a run that ended with the document completed, the embeddings are
\* as many as the chunks, the points the run upserted are as many as the
\* chunks, and total_chunks is that number.
C10_CountsAgree ==
    \A r \in RunIds :
        LET d == runs[r].document_id
        IN runs[r].pc = "done" =>
              /\ runs[r].embeddings = runs[r].chunks
              /\ runs[r].written = runs[r].chunks
              /\ docs[d].present =>
                    /\ SumCounts(PointsOfRun(r)) = runs[r].chunks
                    /\ Status(d) = "completed" =>
                          docs[d].total_chunks = runs[r].chunks

\* C10 witness: a run of more than one batch has completed its document
C10_Witness ==
    \E r \in RunIds :
        /\ runs[r].pc = "done"
        /\ runs[r].chunks > BatchSize
        /\ docs[runs[r].document_id].present
        /\ Status(runs[r].document_id) = "completed"
        /\ docs[runs[r].document_id].total_chunks = runs[r].chunks

\* the step is generate_embeddings_task of run r meeting a backend that
\* returned a list of another length than the chunks
Mismatch(r) ==
    \E k \in {runs[r].chunks, runs[r].chunks - 1} :
        k # runs[r].chunks /\ EmbedTask(r, k)

\* C11: when the backend returns a list of another length than the chunks,
\* generate_embeddings_task fails with the count-mismatch ValueError, the
\* document becomes failed, and the run has written and will write no point.
C11_MismatchFails ==
    [][\A r \in RunIds :
          LET d == runs[r].document_id
          IN /\ Mismatch(r) =>
                  /\ runs'[r].pc = "failed"
                  /\ progress'[d] = [percent |-> 0, step |-> "failed",
                                     error |-> "Embedding count mismatch"]
                  /\ docs[d].present =>
                        /\ Status(d)' = "failed"
                        /\ docs'[d].error_message = "Embedding count mismatch"
                  /\ PointsOfRun(r) = {}
                  /\ points' = points
             /\ runs[r].pc = "failed" =>
                  /\ runs'[r] = runs[r]
                  /\ PointsOfRun(r)' \subseteq PointsOfRun(r)]_vars

\* C11 witness: a run has failed on the count mismatch, its document is failed
C11_Witness ==
    \E r \in RunIds :
        LET d == runs[r].document_id
        IN /\ runs[r].pc = "failed"
           /\ docs[d].present
           /\ Status(d) = "failed"
           /\ docs[d].error_message = "Embedding count mismatch"
           /\ progress[d].error = "Embedding count mismatch"
           /\ PointsOfRun(r) = {}

\* ------------------------------------------- generate_embeddings_batch
\* the chunk texts handed to the backend
TextIds == {"a", "b"}
RECURSIVE SeqsUpTo(_, _)
SeqsUpTo(S, n) ==
    IF n = 0 THEN {<<>>}
    ELSE LET shorter == SeqsUpTo(S, n - 1)
         IN shorter \cup {Append(q, x) : q \in shorter, x \in S}

\* what one requests.post ends with: a status code, or an exception of requests
\* ("200 short": the local service answers 200 with one embedding too few)
OllamaReplies == {"200", "500", "Timeout", "ConnectionError"}
LocalReplies == {"200", "200 short", "500", "Timeout", "ConnectionError"}

\* response.json()['embedding'] for a prompt: the model's vector of that text
Embedding(text) == <<"embedding", text>>

\* a call that returned a list / a call that raised
Returned(value) == [done |-> TRUE, returned |-> TRUE, value |-> value, raised |-> None]
RaisedError(msg) == [done |-> TRUE, returned |-> FALSE, value |-> <<>>, raised |-> msg]
NotDone == [done |-> FALSE, returned |-> FALSE, value |-> <<>>, raised |-> None]

\* mutant: a text whose request failed is skipped and the loop goes on
RECURSIVE OllamaLoopSkipping(_, _, _, _)
OllamaLoopSkipping(texts, replies, idx, embeddings) ==
    IF idx > Len(texts) THEN Returned(embeddings)
    ELSE OllamaLoopSkipping(texts, replies, idx + 1,
            IF replies[idx] = "200"
            THEN Append(embeddings, Embedding(texts[idx]))
            ELSE embeddings)

\* the USE_OLLAMA branch: one request per text, in order; the first failure raises
RECURSIVE OllamaLoop(_, _, _, _)
OllamaLoop(texts, replies, idx, embeddings) ==
    IF idx > Len(texts) THEN Returned(embeddings)
    ELSE IF replies[idx] = "200"
    THEN OllamaLoop(texts, replies, idx + 1,
                    Append(embeddings, Embedding(texts[idx])))
    ELSE IF replies[idx] = "500"
    THEN RaisedError("Ollama API error: 500")
    ELSE RaisedError(replies[idx])

\* the local-service branch: one request for the whole list
LocalCall(texts, reply) ==
    LET all == [i \in 1 .. Len(texts) |-> Embedding(texts[i])]
    IN CASE reply = "200" -> Returned(all)
         [] reply = "200 short" -> Returned(SubSeq(all, 1, Len(all) - 1))
         [] reply = "500" -> RaisedError("Local embedding service error: 500")
         [] reply = "ConnectionError" ->
                RaisedError("Cannot connect to local embedding service")
         [] OTHER -> RaisedError(reply)

\* generate_embeddings_batch of app/api/embeddings_switch.py
generate_embeddings_batch(use_ollama, texts, replies) ==
    IF use_ollama THEN OllamaLoop(texts, replies, 1, <<>>)
                  ELSE LocalCall(texts, replies[1])

\* what generate_embeddings_task hands to upsert_vectors_task
Handed(embeddings) == [stage |-> "upsert", embeddings |-> embeddings]
NothingHanded == [stage |-> "failed", embeddings |-> <<>>]

EmbedInputs ==
    {[fn |-> "generate_embeddings_batch", use_ollama |-> TRUE, texts |-> t,
      replies |-> rs, result |-> NotDone, task |-> "running", handed |-> NothingHanded] :
        <<t, rs>> \in {q \in SeqsUpTo(TextIds, MaxTexts) \X
                              SeqsUpTo(OllamaReplies, MaxTexts) :
                          Len(q[1]) = Len(q[2])}}
    \cup
    {[fn |-> "generate_embeddings_batch", use_ollama |-> FALSE, texts |-> t,
      replies |-> <<rp>>, result |-> NotDone, task |-> "running", handed |-> NothingHanded] :
        t \in SeqsUpTo(TextIds, MaxTexts), rp \in LocalReplies}

\* no document, no file, no task, no collection: the pipeline is idle
NothingStored ==
    /\ docs = [d \in DocIds |-> NoRow]
    /\ files = <<>>
    /\ progress = [d \in DocIds |-> NoKey]
    /\ runs = <<>>
    /\ tasks = {}
    /\ httpRetry = [d \in DocIds |-> 0]
    /\ collections = {}
    /\ points = {}
    /\ nextId = [d \in DocIds |-> 0]
    /\ nextDoc = 1
    /\ requests = 0
    /\ resp = Response("none", 0, "none")
    /\ overlapped = {}

InitEmbed ==
    /\ NothingStored
    /\ written = <<>>
    /\ call \in EmbedInputs

\* embeddings = generate_embeddings_batch(texts)
EmbedCall ==
    /\ call.fn = "generate_embeddings_batch"
    /\ ~call.result.done
    /\ call' = [call EXCEPT !.result =
                    generate_embeddings_batch(call.use_ollama, call.texts, call.replies)]
    /\ UNCHANGED <<docs, files, progress, runs, tasks, httpRetry, collections,
                   points, nextId, nextDoc, requests, resp, overlapped, written>>

\* generate_embeddings_task after the call: the handler, the length test, the return
EmbedReturn ==
    /\ call.fn = "generate_embeddings_batch"
    /\ call.result.done
    /\ call.task = "running"
    /\ call' = IF call.result.returned
                  /\ CountsMatch(Len(call.result.value), Len(call.texts))
               THEN [call EXCEPT !.task = "returned",
                                 !.handed = Handed(call.result.value)]
               ELSE [call EXCEPT !.task = "raised"]
    /\ UNCHANGED <<docs, files, progress, runs, tasks, httpRetry, collections,
                   points, nextId, nextDoc, requests, resp, overlapped, written>>

NextEmbed == EmbedCall \/ EmbedReturn

SpecEmbed == InitEmbed /\ [][NextEmbed]_vars

\* a request of the call fails (the per-text backend makes one per text, the
\* local one a single request)
SomeRequestFails ==
    \E i \in 1 .. Len(call.replies) : call.replies[i] \notin {"200", "200 short"}

\* the cause an error message names
Cause(msg) ==
    CASE msg \in {"Ollama API error: 500", "Local embedding service error: 500"} -> "500"
      [] msg = "Cannot connect to local embedding service" -> "ConnectionError"
      [] OTHER -> msg

\* C12: if a request of generate_embeddings_batch fails the call raises the
\* error of the first failing request and returns no list, and the task hands
\* no embedding to the vector-write stage; a call of the per-text backend that
\* succeeds returns, at every index, the embedding of the text at that index.
C12_AllOrNothing ==
    (call.fn = "generate_embeddings_batch" /\ call.result.done) =>
        /\ SomeRequestFails =>
              /\ ~call.result.returned
              /\ call.result.value = <<>>
              /\ \E i \in 1 .. Len(call.replies) :
                    /\ Cause(call.result.raised) = call.replies[i]
                    /\ \A j \in 1 .. i - 1 : call.replies[j] = "200"
              /\ call.handed = NothingHanded
              /\ call.task \in {"running", "raised"}
        /\ (call.use_ollama /\ ~SomeRequestFails) =>
              /\ call.result.returned
              /\ Len(call.result.value) = Len(call.texts)
              /\ \A i \in 1 .. Len(call.texts) :
                    call.result.value[i] = Embedding(call.texts[i])
              /\ call.task = "returned" => call.handed = Handed(call.result.value)

\* C12 witness: the second of three requests failed, the task has raised
C12_Witness ==
    /\ call.fn = "generate_embeddings_batch"
    /\ call.use_ollama
    /\ Len(call.texts) = 3
    /\ call.replies = <<"200", "Timeout", "200">>
    /\ call.result.raised = "Timeout"
    /\ call.task = "raised"

\* the positions of a run in the order the chain takes them
StageOrder ==
    <<"queued", "extract", "extracting", "chunk", "embed", "upsert", "create",
      "batch", "done">>
Rank(pc) == CHOOSE i \in 1 .. Len(StageOrder) : StageOrder[i] = pc

\* the position follows the other in the chain (ensure_collection_exists
\* creates the collection only when it is missing)
FollowsInChain(from, to) ==
    \/ Rank(to) = Rank(from) + 1
    \/ from = "upsert" /\ to = "batch"
    \/ from = "batch" /\ to = "batch"

\* C13: a run moves through extraction, chunking, embedding and vector write
\* in that order, one position at a time; a stage is entered only with the
\* result of the stage before it; a run whose stage raised never moves again.
C13_StagesInOrder ==
    [][\A r \in RunIds :
          /\ <<runs'[r].pc, runs'[r].written>> # <<runs[r].pc, runs[r].written>> =>
                /\ runs[r].pc \notin {"failed", "done"}
                /\ \/ runs'[r].pc = "failed"
                   \/ FollowsInChain(runs[r].pc, runs'[r].pc)
          /\ runs'[r].pc \in {"chunk", "embed", "upsert", "create", "batch", "done"} =>
                runs'[r].pages # NoChunks
          /\ runs'[r].pc \in {"embed", "upsert", "create", "batch", "done"} =>
                runs'[r].chunks = runs'[r].pages
          /\ runs'[r].pc \in {"upsert", "create", "batch", "done"} =>
                runs'[r].embeddings = runs'[r].chunks
          /\ runs'[r].pc \in {"queued", "extract", "extracting", "chunk", "embed",
                              "upsert", "create", "failed"} =>
                runs'[r].written = 0]_vars

\* C13 witness: one run has reached the vector write with every earlier
\* result, another has stopped at the stage that raised
C13_Witness ==
    \E r, q \in RunIds :
        /\ runs[r].pc = "batch"
        /\ runs[r].written = BatchSize
        /\ runs[r].embeddings = BatchSize + 1
        /\ runs[q].pc = "failed"

\* ------------------------------------------------ the progress writes
\* one update_progress call of a run: the stage task that makes it, its arguments
Milestone(pc, percent, step) == [pc |-> pc, percent |-> percent, step |-> step]

\* mutant: chunk_text_task reports 50 before 40
ProgressScheduleSwapped(pages) ==
    <<Milestone("extracting", 5, "starting"),
      Milestone("chunk", 30, "chunking_text"),
      Milestone("chunk", 50, "chunks_stored"),
      Milestone("chunk", 40, "storing_chunks"),
      Milestone("upsert", 100, "completed")>>

\* mutant: the page loop reports 10 + i * 15, the division by total_pages left out
ProgressScheduleUnscaled(pages) ==
    <<Milestone("extracting", 5, "starting"),
      Milestone("extracting", 10, "extracting_text")>>
    \o [i \in 1 .. pages |->
            Milestone("extracting", 10 + (i * 15), "extracted_page")]
    \o <<Milestone("extracting", 25, "text_extracted"),
         Milestone("chunk", 30, "chunking_text"),
         Milestone("chunk", 40, "storing_chunks"),
         Milestone("chunk", 50, "chunks_stored"),
         Milestone("embed", 55, "generating_embeddings"),
         Milestone("embed", 75, "embeddings_generated"),
         Milestone("upsert", 80, "upserting_vectors"),
         Milestone("upsert", 90, "vectors_upserted"),
         Milestone("upsert", 100, "completed")>>

\* the update_progress calls of a run that succeeds on a PDF of that many
\* pages, in program order (progress = 10 + int((i / total_pages) * 15))
ProgressSchedule(pages) ==
    <<Milestone("extracting", 5, "starting"),
      Milestone("extracting", 10, "extracting_text")>>
    \o [i \in 1 .. pages |->
            Milestone("extracting", 10 + ((i * 15) \div pages), "extracted_page")]
    \o <<Milestone("extracting", 25, "text_extracted"),
         Milestone("chunk", 30, "chunking_text"),
         Milestone("chunk", 40, "storing_chunks"),
         Milestone("chunk", 50, "chunks_stored"),
         Milestone("embed", 55, "generating_embeddings"),
         Milestone("embed", 75, "embeddings_generated"),
         Milestone("upsert", 80, "upserting_vectors"),
         Milestone("upsert", 90, "vectors_upserted"),
         Milestone("upsert", 100, "completed")>>

\* the percent values a task has written, in order
WritesBy(id) == SelectSeq(written, LAMBDA w : w.by = id)
Write(id, percent) == [by |-> id, percent |-> percent]

\* one uploaded document with a PDF of 0 .. MaxPages pages, its chain queued
InitProgress ==
    \E t \in Tenants, pages \in 0 .. MaxPages :
        /\ docs = [d \in DocIds |->
              IF d = 1
              THEN [present |-> TRUE, tenant_id |-> t, file_path |-> SavedPath(t, 1),
                    processing_status |-> "pending", total_chunks |-> NoChunks,
                    error_message |-> None, uploaded_by |-> UserOf(t)]
              ELSE NoRow]
        /\ files = (SavedPath(t, 1) :> pages)
        /\ progress = [d \in DocIds |-> NoKey]
        /\ runs = (<<1, 1>> :> [NewRun(t, 1, SavedPath(t, 1), FALSE) EXCEPT !.pc = "extract"])
        /\ tasks = {}
        /\ httpRetry = [d \in DocIds |-> 0]
        /\ collections = {}
        /\ points = {}
        /\ nextId = [d \in DocIds |-> IF d = 1 THEN 1 ELSE 0]
        /\ nextDoc = 2
        /\ requests = 0
        /\ resp = Response("none", 0, "none")
        /\ overlapped = {}
        /\ call = NoCall
        /\ written = <<>>

\* the run makes its next update_progress call (a PDF without a page raises
\* after "extracting_text": no text could be extracted)
ProgressWrite(r) ==
    /\ Live(r)
    /\ LET pages == files[runs[r].file_path]
           schedule == ProgressSchedule(pages)
           at == Len(WritesBy(r)) + 1
       IN /\ at <= Len(schedule)
          /\ pages = 0 => at <= 2
          /\ written' = Append(written, Write(r, schedule[at].percent))
          /\ progress' = UpdateProgress(progress, runs[r].document_id,
                                        schedule[at].percent, schedule[at].step, None)
          /\ runs' = SetPc(r, IF at = Len(schedule) THEN "done" ELSE schedule[at].pc)
    /\ UNCHANGED <<docs, files, tasks, httpRetry, collections, points, nextId,
                   nextDoc, requests, resp, overlapped, call>>

\* the task the run is in raises: its handler calls update_progress(0, "failed", str(e))
ProgressFail(r, msg) ==
    /\ Live(r)
    /\ written' = Append(written, Write(r, 0))
    /\ Handler(r, msg)
    /\ UNCHANGED <<files, tasks, httpRetry, collections, points, nextId, nextDoc,
                   requests, resp, overlapped, call>>

\* a retry of the failed document: retry_failed_document_task calls
\* update_progress(0, "retrying") and queues the next run
ProgressRetry(d) ==
    /\ requests < MaxRequests
    /\ requests' = requests + 1
    /\ docs[d].present
    /\ docs[d].processing_status = "failed"
    /\ LiveRuns(d) = {}
    /\ LET task == <<d, nextId[d] + 1>>
           run == <<d, nextId[d] + 2>>
       IN /\ written' = Append(written, Write(task, 0))
          /\ progress' = UpdateProgress(progress, d, 0, "retrying", None)
          /\ docs' = UpdateDocumentStatus(
                        [docs EXCEPT ![d].error_message = None], d, "pending",
                        NoChunks, None)
          /\ runs' = runs @@ (run :> [NewRun(docs[d].tenant_id, d, docs[d].file_path, TRUE)
                                          EXCEPT !.pc = "extract"])
          /\ nextId' = [nextId EXCEPT ![d] = @ + 2]
    /\ UNCHANGED <<files, tasks, httpRetry, collections, points, nextDoc, resp,
                   overlapped, call>>

NextProgress ==
    \/ \E r \in RunIds : ProgressWrite(r)
    \/ \E r \in RunIds, msg \in StageErrors : ProgressFail(r, msg)
    \/ \E d \in DocIds : ProgressRetry(d)

SpecProgress == InitProgress /\ [][NextProgress]_vars

NonDecreasing(ws) ==
    \A i \in 1 .. Len(ws) - 1 : ws[i].percent <= ws[i + 1].percent

\* C14: the percent values a run that succeeded has written are non-decreasing
\* and the last of them is 100.
C14_SuccessfulRunMonotone ==
    \A r \in RunIds :
        runs[r].pc = "done" =>
            /\ NonDecreasing(WritesBy(r))
            /\ WritesBy(r) # <<>>
            /\ WritesBy(r)[Len(WritesBy(r))].percent = 100
            /\ progress[runs[r].document_id].percent = 100

\* C14 witness: a run queued by a retry has succeeded on a PDF of three pages
C14_Witness ==
    \E r \in RunIds :
        /\ runs[r].pc = "done"
        /\ runs[r].retry
        /\ files[runs[r].file_path] = 3
        /\ Len(WritesBy(r)) = Len(ProgressSchedule(3))

HandlerWrite(i) ==
    /\ written[i].by \in RunIds
    /\ runs[written[i].by].pc = "failed"
    /\ written[i].percent = 0
    /\ \A j \in i + 1 .. Len(written) : written[j].by # written[i].by

PointsWithDocId(d) == {p \in points : p.payload.document_id = d}

\* the delete_vectors messages queued for document d
CleanupTasks(d) ==
    {k \in tasks : k.kind = "delete_vectors" /\ k.document_id = d}

\* C16: once a document has been deleted, the cleanup delete_document
\* scheduled has run and no run of the document is under way, no point with
\* its document_id remains.
C16_DeleteRemovesVectors ==
    \A d \in DocIds :
        (/\ nextDoc > d
         /\ ~docs[d].present
         /\ CleanupTasks(d) = {}
         /\ LiveRuns(d) = {}) => PointsWithDocId(d) = {}

PointUniverse ==
    {[collection |-> CollectionName(t), run |-> <<d, 1>>, first |-> b[1],
      count |-> b[2], payload |-> Payload(t, d, UserOf(t))] :
        t \in Tenants, d \in DocIds, b \in {<<0, BatchSize>>, <<BatchSize, 1>>}}

\* a delete_document_vectors_task message
CleanupMessage(n, t, d) ==
    [kind |-> "delete_vectors", id |-> <<d, n>>, tenant_id |-> t,
     document_id |-> d, pc |-> "queued", file_path |-> <<>>]

\* any index, and two cleanup messages for one document of one tenant
InitDelete ==
    \E t \in Tenants, d \in DocIds, stored \in SUBSET PointUniverse :
        /\ docs = [e \in DocIds |-> NoRow]
        /\ files = <<>>
        /\ progress = [e \in DocIds |-> NoKey]
        /\ runs = <<>>
        /\ tasks = {CleanupMessage(1, t, d), CleanupMessage(2, t, d)}
        /\ httpRetry = [e \in DocIds |-> 0]
        /\ collections = {CollectionName(u) : u \in Tenants}
        /\ points = stored
        /\ nextId = [e \in DocIds |-> IF e = d THEN 2 ELSE 0]
        /\ nextDoc = MaxDocs + 1
        /\ requests = 0
        /\ resp = Response("none", 0, "none")
        /\ overlapped = {}
        /\ call = NoCall
        /\ written = <<>>

NextDelete == \E k \in tasks : DeleteVectorsTask(k)

SpecDelete == InitDelete /\ [][NextDelete]_vars

\* C18: a delete by document_id removes exactly the points of the collection
\* that carry the document_id: none with another document_id or of another
\* collection; with no such point the index is unchanged, so a second call in
\* a row changes nothing.
C18_DeleteIdempotent ==
    [][\A k \in tasks :
          DeleteVectorsTask(k) =>
              LET name == CollectionName(k.tenant_id)
                  d == k.document_id
                  mine == {p \in points : p.collection = name /\ p.payload.document_id = d}
              IN /\ points' = points \ mine
                 /\ \A p \in points \ points' :
                       p.payload.document_id = d /\ p.collection = name
                 /\ mine = {} => points' = points
                 /\ {p \in points' : p.collection = name /\ p.payload.document_id = d} = {}
                 /\ k.id = <<d, 2>> /\ CleanupMessage(1, k.tenant_id, d) \notin tasks =>
                       points' = points]_vars

\* C18 witness: both calls have run; the points of the other document and of
\* the other collection are still stored
C18_Witness ==
    /\ nextDoc = MaxDocs + 1
    /\ runs = <<>>
    /\ tasks = {}
    /\ \E p, q \in points :
          /\ p.collection # q.collection
          /\ p.payload.document_id # q.payload.document_id
    /\ \E t \in Tenants, d \in DocIds :
          /\ nextId[d] = 2
          /\ {p \in points : p.collection = CollectionName(t) /\ p.payload.document_id = d} = {}
          /\ \E p \in points : p.collection = CollectionName(t)

\* ----------------------------------------- chunk_with_smart_boundaries
\* Python's slice bounds: a negative index counts from the end, both ends
\* are clamped to 0 .. len
SliceIndex(i, len) ==
    IF i < 0 THEN (IF i + len < 0 THEN 0 ELSE i + len)
    ELSE IF i > len THEN len ELSE i

\* text[start:end], 0-based as in Python
Slice(text, start, end) ==
    SubSeq(text, SliceIndex(start, Len(text)) + 1, SliceIndex(end, Len(text)))

\* text.rfind(sub, start, end): the highest 0-based index in the slice where
\* sub begins, or -1
RFind(text, sub, start, end) ==
    LET from == SliceIndex(start, Len(text))
        to == SliceIndex(end, Len(text))
        found == {i \in from .. to - Len(sub) :
                     SubSeq(text, i + 1, i + Len(sub)) = sub}
    IN IF found = {} THEN 0 - 1
       ELSE CHOOSE i \in found : \A j \in found : j <= i

\* str.strip()
Strip(text) ==
    LET inked == {i \in 1 .. Len(text) : text[i] # " "}
    IN IF inked = {} THEN <<>>
       ELSE SubSeq(text, CHOOSE i \in inked : \A j \in inked : i <= j,
                         CHOOSE i \in inked : \A j \in inked : j <= i)

Max3(a, b, c) ==
    LET ab == IF a > b THEN a ELSE b IN IF ab > c THEN ab ELSE c

\* where the window that begins at start ends
WindowEnd(text, chunk_size, start) ==
    LET end == start + chunk_size
        sentence_end == Max3(RFind(text, <<".", " ">>, start, end),
                             RFind(text, <<"?", " ">>, start, end),
                             RFind(text, <<"!", " ">>, start, end))
        space == RFind(text, <<" ">>, start, end)
    IN IF end < Len(text)
       THEN IF sentence_end > start + ((chunk_size * 7) \div 10)
            THEN sentence_end + 1
            ELSE IF space > start THEN space ELSE end
       ELSE end

\* mutant: every window is appended, as cut, whatever its length
WithWindowKeepsAll(chunks, text, chunk_size, start) ==
    LET end == WindowEnd(text, chunk_size, start)
    IN Append(chunks, [text |-> Slice(text, start, end), char_start |-> start,
                       char_end |-> end])

\* the chunks list after the window that begins at start
WithWindow(chunks, text, chunk_size, start) ==
    LET end == WindowEnd(text, chunk_size, start)
        chunk_text == Strip(Slice(text, start, end))
    IN IF Len(chunk_text) > 50
       THEN Append(chunks, [text |-> chunk_text, char_start |-> start,
                            char_end |-> end])
       ELSE chunks

\* page texts: up to MaxBlocks blocks, each a run of letters, one space, a
\* run of spaces or a sentence end
Run(c, n) == [i \in 1 .. n |-> c]
TextBlocks ==
    {Run("x", 20), Run("x", 55), Run("x", 70), <<" ">>, Run(" ", 60), <<".", " ">>}
RECURSIVE Flatten(_)
Flatten(blocks) ==
    IF blocks = <<>> THEN <<>> ELSE Head(blocks) \o Flatten(Tail(blocks))
PageTexts == {Flatten(bs) : bs \in SeqsUpTo(TextBlocks, MaxBlocks)}
ChunkSizes == {60, 80}
Overlaps == {0, 10, 30}

ChunkInputs ==
    {[fn |-> "chunk_with_smart_boundaries", text |-> text,
      chunk_size |-> chunk_size, overlap |-> overlap, start |-> 0,
      chunks |-> <<>>, done |-> FALSE] :
        text \in PageTexts, chunk_size \in ChunkSizes, overlap \in Overlaps}

InitChunk ==
    /\ NothingStored
    /\ written = <<>>
    /\ call \in ChunkInputs

\* one pass of the while loop (the list is cut off at MaxChunks chunks)
ChunkWindow ==
    /\ call.fn = "chunk_with_smart_boundaries"
    /\ ~call.done
    /\ call.start < Len(call.text)
    /\ Len(call.chunks) < MaxChunks
    /\ call' = [call EXCEPT
          !.chunks = WithWindow(call.chunks, call.text, call.chunk_size, call.start),
          !.start = WindowEnd(call.text, call.chunk_size, call.start) - call.overlap]
    /\ UNCHANGED <<docs, files, progress, runs, tasks, httpRetry, collections,
                   points, nextId, nextDoc, requests, resp, overlapped, written>>

\* the loop ends: return chunks
ChunkReturn ==
    /\ call.fn = "chunk_with_smart_boundaries"
    /\ ~call.done
    /\ call.start >= Len(call.text)
    /\ call' = [call EXCEPT !.done = TRUE]
    /\ UNCHANGED <<docs, files, progress, runs, tasks, httpRetry, collections,
                   points, nextId, nextDoc, requests, resp, overlapped, written>>

NextChunk == ChunkWindow \/ ChunkReturn

SpecChunk == InitChunk /\ [][NextChunk]_vars

\* the call of chunk_with_smart_boundaries has returned its list
ChunksReturned == call.fn = "chunk_with_smart_boundaries" /\ call.done

\* C19: for any two adjacent chunks of a returned list,
\* chunk[i].char_end - overlap <= chunk[i+1].char_start <= chunk[i].char_end.
C19_AdjacentChunksOverlap ==
    ChunksReturned =>
        \A i \in 1 .. Len(call.chunks) - 1 :
            /\ call.chunks[i].char_end - call.overlap <= call.chunks[i + 1].char_start
            /\ call.chunks[i + 1].char_start <= call.chunks[i].char_end

\* C20: every chunk of a returned list has 0 <= char_start < char_end <= len(text).
C20_OffsetsInsideText ==
    ChunksReturned =>
        \A i \in 1 .. Len(call.chunks) :
            /\ 0 <= call.chunks[i].char_start
            /\ call.chunks[i].char_start < call.chunks[i].char_end
            /\ call.chunks[i].char_end <= Len(call.text)

\* the characters of the text at the 0-based positions from .. to - 1
TextBetween(text, from, to) ==
    SubSeq(text, (IF from < 0 THEN 0 ELSE from) + 1,
                 IF to > Len(text) THEN Len(text) ELSE to)

\* C21: every chunk of a returned list has more than 50 characters, none of
\* them leading or trailing whitespace, and its text is the trimmed slice of
\* the page text between its char_start and its char_end.
C21_ChunksAreTrimmedSlices ==
    ChunksReturned =>
        \A i \in 1 .. Len(call.chunks) :
            LET c == call.chunks[i]
            IN /\ Len(c.text) > 50
               /\ c.text[1] # " "
               /\ c.text[Len(c.text)] # " "
               /\ c.text = Strip(TextBetween(call.text, c.char_start, c.char_end))

\* C21 witness: a returned list of two chunks, the first with whitespace
\* trimmed off its slice
C21_Witness ==
    /\ ChunksReturned
    /\ Len(call.chunks) >= 2
    /\ Len(call.chunks[1].text) <
          Len(TextBetween(call.text, call.chunks[1].char_start,
                          call.chunks[1].char_end))

\* ----------------------------------------------------- chunk_text_task
\* chunk_with_smart_boundaries run to its end: the list it returns; the next
\* start depends on the start alone, so a start met twice is a loop without end
RECURSIVE Chunked(_, _, _, _, _, _)
Chunked(text, chunk_size, overlap, start, chunks, seen) ==
    IF start >= Len(text) THEN [returns |-> TRUE, chunks |-> chunks]
    ELSE IF start \in seen THEN [returns |-> FALSE, chunks |-> <<>>]
    ELSE Chunked(text, chunk_size, overlap,
                 WindowEnd(text, chunk_size, start) - overlap,
                 WithWindow(chunks, text, chunk_size, start),
                 seen \cup {start})

\* mutant: the global index starts again at 0 on every page
PageEntriesPerPage(page_data, page_chunks, global_index) ==
    [idx \in 1 .. Len(page_chunks) |->
        [text |-> page_chunks[idx].text,
         page_number |-> page_data.page_number,
         chunk_index_in_page |-> idx - 1,
         total_chunks_in_page |-> Len(page_chunks),
         global_chunk_index |-> idx - 1,
         extraction_method |-> page_data.method,
         char_start |-> page_chunks[idx].char_start,
         char_end |-> page_chunks[idx].char_end]]

\* what the inner loop of chunk_text_task appends for one page
\* (enumerate counts from 0, a sequence here from 1)
PageEntries(page_data, page_chunks, global_index) ==
    [idx \in 1 .. Len(page_chunks) |->
        [text |-> page_chunks[idx].text,
         page_number |-> page_data.page_number,
         chunk_index_in_page |-> idx - 1,
         total_chunks_in_page |-> Len(page_chunks),
         global_chunk_index |-> global_index + idx - 1,
         extraction_method |-> page_data.method,
         char_start |-> page_chunks[idx].char_start,
         char_end |-> page_chunks[idx].char_end]]

\* the pages of an extraction result: the pages of the PDF that had text, in
\* page order, each with its text and the method that read it
TaskPageTexts ==
    {Run("x", 20), Run("x", 55), Run("x", 70) \o <<" ">> \o Run("x", 55),
     Run(" ", 60) \o Run("x", 55)}
ExtractionMethods == {"text_extraction", "ocr"}
PagesOf(numbers) ==
    LET n == Cardinality(numbers)
        \* the i-th smallest page number
        nth == [i \in 1 .. n |->
                  CHOOSE k \in numbers : Cardinality({j \in numbers : j < k}) = i - 1]
    IN {[i \in 1 .. n |->
            [page_number |-> nth[i], text |-> ts[i], method |-> ms[i]]] :
          ts \in [1 .. n -> TaskPageTexts], ms \in [1 .. n -> ExtractionMethods]}
ExtractionResults ==
    UNION {PagesOf(numbers) : numbers \in SUBSET (1 .. MaxPages) \ {{}}}

ChunkTaskInputs ==
    {[fn |-> "chunk_text_task", pages |-> pages, chunk_size |-> 60,
      overlap |-> overlap, at |-> 1, all_chunks |-> <<>>, global_index |-> 0,
      task |-> "running", error |-> None] :
        pages \in ExtractionResults, overlap \in {0, 10}}

InitChunkTask ==
    /\ NothingStored
    /\ written = <<>>
    /\ call \in ChunkTaskInputs

\* chunk_text_task: one pass of the loop over the pages (a call of
\* chunk_with_smart_boundaries that does not end is ended by the task's soft
\* time limit, which raises in the task)
ChunkTaskPage ==
    /\ call.fn = "chunk_text_task"
    /\ call.task = "running"
    /\ call.at <= Len(call.pages)
    /\ LET page_data == call.pages[call.at]
           page == Chunked(page_data.text, call.chunk_size, call.overlap, 0,
                           <<>>, {})
       IN call' =
            IF page.returns
            THEN [call EXCEPT
                    !.all_chunks = @ \o PageEntries(page_data, page.chunks,
                                                    call.global_index),
                    !.global_index = @ + Len(page.chunks),
                    !.at = @ + 1]
            ELSE [call EXCEPT !.task = "raised",
                              !.error = "SoftTimeLimitExceeded"]
    /\ UNCHANGED <<docs, files, progress, runs, tasks, httpRetry, collections,
                   points, nextId, nextDoc, requests, resp, overlapped, written>>

\* chunk_text_task after the loop: the emptiness test and the return
ChunkTaskReturn ==
    /\ call.fn = "chunk_text_task"
    /\ call.task = "running"
    /\ call.at > Len(call.pages)
    /\ call' = IF call.all_chunks = <<>>
               THEN [call EXCEPT !.task = "raised",
                                 !.error = "No chunks generated from text"]
               ELSE [call EXCEPT !.task = "returned"]
    /\ UNCHANGED <<docs, files, progress, runs, tasks, httpRetry, collections,
                   points, nextId, nextDoc, requests, resp, overlapped, written>>

NextChunkTask == ChunkTaskPage \/ ChunkTaskReturn

SpecChunkTask == InitChunkTask /\ [][NextChunkTask]_vars

\* the place of a page in the extraction result
PlaceOf(page_number) ==
    CHOOSE i \in 1 .. Len(call.pages) : call.pages[i].page_number = page_number

\* C22: in the output of chunk_text_task global_chunk_index is 0, 1, ..., n-1
\* in list order, the chunks come in the page order of the extraction result,
\* and within each page chunk_index_in_page runs 0 .. total_chunks_in_page - 1
\* without gaps.
C22_IndicesContiguous ==
    (call.fn = "chunk_text_task" /\ call.task = "returned") =>
        LET out == call.all_chunks
        IN /\ out # <<>>
           /\ \A i \in 1 .. Len(out) : out[i].global_chunk_index = i - 1
           /\ \A i \in 1 .. Len(out) :
                 \E k \in 1 .. Len(call.pages) :
                    call.pages[k].page_number = out[i].page_number
           /\ \A i \in 1 .. Len(out) - 1 :
                 PlaceOf(out[i].page_number) <= PlaceOf(out[i + 1].page_number)
           /\ \A k \in 1 .. Len(call.pages) :
                 LET mine == SelectSeq(out,
                                LAMBDA c : c.page_number = call.pages[k].page_number)
                 IN \A j \in 1 .. Len(mine) :
                       /\ mine[j].chunk_index_in_page = j - 1
                       /\ mine[j].total_chunks_in_page = Len(mine)

\* C22 witness: the task returned the chunks of three pages, two from the
\* first, none from the second, one from the third
C22_Witness ==
    /\ call.fn = "chunk_text_task"
    /\ call.task = "returned"
    /\ Len(call.pages) = 3
    /\ Len(call.all_chunks) = 3
    /\ call.all_chunks[2].page_number = call.pages[1].page_number
    /\ call.all_chunks[2].chunk_index_in_page = 1
    /\ call.all_chunks[3].page_number = call.pages[3].page_number
    /\ call.all_chunks[3].global_chunk_index = 2

\* the loop of chunk_with_smart_boundaries is about to make a pass
InLoop ==
    /\ call.fn = "chunk_with_smart_boundaries"
    /\ ~call.done
    /\ call.start < Len(call.text)

\* the start the pass leaves: start = end - overlap
NextStart == WindowEnd(call.text, call.chunk_size, call.start) - call.overlap

\* C23: the window start is never negative and every pass of the loop leaves
\* it strictly greater, so the loop ends on every text.
C23_StartAdvances ==
    InLoop => /\ call.start >= 0
              /\ NextStart > call.start
              /\ NextStart >= 0

\* ------------------------------------------------- a run under faults
\* one uploaded document of n chunks, its process_document_pipeline queued
InitLive ==
    \E t \in Tenants, n \in ChunkCounts :
        /\ docs = [d \in DocIds |->
              IF d = 1
              THEN [present |-> TRUE, tenant_id |-> t, file_path |-> SavedPath(t, 1),
                    processing_status |-> "pending", total_chunks |-> NoChunks,
                    error_message |-> None, uploaded_by |-> UserOf(t)]
              ELSE NoRow]
        /\ files = (SavedPath(t, 1) :> n)
        /\ progress = [d \in DocIds |-> NoKey]
        /\ runs = (<<1, 1>> :> NewRun(t, 1, SavedPath(t, 1), FALSE))
        /\ tasks = {}
        /\ httpRetry = [d \in DocIds |-> 0]
        /\ collections = {}
        /\ points = {}
        /\ nextId = [d \in DocIds |-> IF d = 1 THEN 1 ELSE 0]
        /\ nextDoc = 2
        /\ requests = 0
        /\ resp = Response("none", 0, "none")
        /\ overlapped = {}
        /\ call = NoCall
        /\ written = <<>>

\* a stage task raises and the commit of its handler's status write fails:
\* update_document_status logs the error, rolls back and returns
HandlerStatusLost(r, msg) ==
    /\ runs[r].pc \in {"extracting", "chunk", "embed", "upsert", "create", "batch"}
    /\ progress' = UpdateProgress(progress, runs[r].document_id, 0, "failed", msg)
    /\ runs' = [runs EXCEPT ![r] = Raised(@)]
    /\ UNCHANGED <<docs, files, tasks, httpRetry, collections, points, nextId,
                   nextDoc, requests, resp, overlapped, call, written>>

\* the last batch is written and the commit of the "completed" status write
\* fails: the task goes on to progress 100 and returns
CompletedStatusLost(r) ==
    /\ runs[r].pc = "batch"
    /\ LET d == runs[r].document_id
           n == IF runs[r].embeddings < runs[r].chunks
                THEN runs[r].embeddings ELSE runs[r].chunks
           i == runs[r].written
           c == BatchCount(n, i)
           name == TargetCollection(runs[r].tenant_id)
       IN /\ name \in collections
          /\ i + c >= n
          /\ points' = points \cup
               {[collection |-> name, run |-> r, first |-> i, count |-> c,
                 payload |-> Payload(runs[r].tenant_id, d, runs[r].uploaded_by)] :
                x \in IF c > 0 THEN {0} ELSE {}}
          /\ runs' = [runs EXCEPT ![r].written = i + c, ![r].pc = "done"]
          /\ progress' = UpdateProgress(progress, d, 100, "completed", None)
    /\ UNCHANGED <<docs, files, tasks, httpRetry, collections, nextId, nextDoc,
                   requests, resp, overlapped, call, written>>

\* the soft time limit's exception is raised inside a try that swallows it
\* (the OCR of a page, update_progress, update_document_status), the task goes
\* on, and at the hard time limit the worker process is killed: no handler runs
HardTimeLimit(r) ==
    /\ runs[r].pc \in {"extracting", "chunk", "embed", "upsert", "create", "batch"}
    /\ runs' = [runs EXCEPT ![r] = Raised(@)]
    /\ UNCHANGED <<docs, files, progress, tasks, httpRetry, collections, points,
                   nextId, nextDoc, requests, resp, overlapped, call, written>>

NextLive ==
    \/ \E r \in RunIds : PipelineEnqueue(r)
    \/ \E r \in RunIds : PipelineEnqueueFail(r)
    \/ \E r \in RunIds : ExtractStart(r)
    \/ \E r \in RunIds : ExtractFinish(r)
    \/ \E r \in RunIds : ChunkTask(r)
    \/ \E r \in RunIds : \E k \in {runs[r].chunks, runs[r].chunks - 1} : EmbedTask(r, k)
    \/ \E r \in RunIds : UpsertStart(r)
    \/ \E r \in RunIds : CreateCollection(r)
    \/ \E r \in RunIds : UpsertBatch(r)
    \/ \E r \in RunIds, msg \in StageErrors : StageFail(r, msg)
    \/ \E r \in RunIds, msg \in StageErrors : HandlerStatusLost(r, msg)
    \/ \E r \in RunIds : CompletedStatusLost(r)
    \/ \E r \in RunIds : HardTimeLimit(r)

\* where every run is: its position and the points it has written
Positions == [r \in RunIds |-> <<runs[r].pc, runs[r].written>>]

\* the workers take every message that is queued, and every call a task makes
\* returns or raises: a step that can be taken is taken
SpecLive == InitLive /\ [][NextLive]_vars /\ WF_Positions(NextLive)

\* every run of the document has ended and the document is completed or failed
Settled ==
    \A r \in RunIds :
        /\ ~Live(r)
        /\ docs[runs[r].document_id].present =>
              Status(runs[r].document_id) \in {"completed", "failed"}

\* C24: every pipeline run that is queued eventually leaves its document
\* completed or failed, never stuck in pending or processing.
C24_EveryRunSettles == <>[]Settled

\* the 0-based positions of the text that the window start .. start + chunk_size - 1 covers
WindowPositions ==
    {i \in call.start .. call.start + call.chunk_size - 1 : 0 <= i /\ i < Len(call.text)}

\* the positions in the last 30% of the window where a sentence terminator
\* (". ", "? ", "! ") lies, both of its characters in the window
TerminatorsInLastPart ==
    {i \in WindowPositions :
        /\ i + 1 \in WindowPositions
        /\ call.text[i + 1] \in {".", "?", "!"}
        /\ call.text[i + 2] = " "
        /\ 10 * (i - call.start) > 7 * call.chunk_size}

SpacesInWindow == {i \in WindowPositions : call.text[i + 1] = " "}

Last(S) == CHOOSE i \in S : \A j \in S : j <= i

\* C25: a window that ends before the end of the text is cut just after the
\* last sentence terminator in its last 30%, if there is one (the terminator
\* character included); otherwise at its last space, if it contains a space;
\* otherwise at the raw boundary start + chunk_size.
C25_CutRule ==
    (InLoop /\ call.start + call.chunk_size < Len(call.text)) =>
        WindowEnd(call.text, call.chunk_size, call.start) =
            IF TerminatorsInLastPart # {} THEN Last(TerminatorsInLastPart) + 1
            ELSE IF SpacesInWindow # {} THEN Last(SpacesInWindow)
            ELSE call.start + call.chunk_size

\* ------------------------------------- extract_text_with_ocr_fallback
\* page_obj.extract_text(): the embedded text of a page
EmbeddedTexts ==
    {<<>>, Run("x", 49), Run("x", 50), Run("x", 51),
     <<" ">> \o Run("x", 50) \o <<" ">>}

\* what the OCR of a page ends with: a text of image_to_string, no image from
\* convert_from_path, the libraries missing, or another exception
OcrText(text) == [kind |-> "text", text |-> text]
OcrOutcomes ==
    {OcrText(Run("y", 10)), OcrText(Run("y", 11)),
     OcrText(Run(" ", 3) \o Run("y", 10)),
     [kind |-> "no image", text |-> <<>>],
     [kind |-> "ImportError", text |-> <<>>],
     [kind |-> "Exception", text |-> <<>>]}

\* extract_text_with_ocr_fallback
extract_text_with_ocr_fallback(page_num, text, ocr) ==
    IF text # <<>> /\ Len(Strip(text)) > 50
    THEN [page_number |-> page_num, text |-> text, method |-> "text_extraction"]
    ELSE IF ocr.kind = "text" /\ Len(Strip(ocr.text)) > 10
    THEN [page_number |-> page_num, text |-> ocr.text, method |-> "ocr"]
    ELSE [page_number |-> page_num, text |-> <<>>, method |-> "failed"]

\* the pages of a PDF: each with its embedded text and what its OCR would give
PdfPages ==
    UNION {[1 .. n -> [text : EmbeddedTexts, ocr : OcrOutcomes]] : n \in 0 .. MaxOcrPages}

ExtractInputs ==
    {[fn |-> "extract_pdf_text_task", pages |-> pages, at |-> 1,
      page_results |-> <<>>, pages_data |-> <<>>, task |-> "running",
      error |-> None] : pages \in PdfPages}

InitOcr ==
    /\ NothingStored
    /\ written = <<>>
    /\ call \in ExtractInputs

\* extract_pdf_text_task: one pass of the loop over reader.pages
ExtractPage ==
    /\ call.fn = "extract_pdf_text_task"
    /\ call.task = "running"
    /\ call.at <= Len(call.pages)
    /\ LET i == call.at
           total_pages == Len(call.pages)
           page_data == extract_text_with_ocr_fallback(i, call.pages[i].text,
                                                       call.pages[i].ocr)
       IN /\ call' = [call EXCEPT
                 !.page_results = Append(@, page_data),
                 !.pages_data = IF Strip(page_data.text) # <<>>
                                THEN Append(@, page_data) ELSE @,
                 !.at = i + 1]
          /\ written' = Append(written,
                               Write("extract", 10 + ((i * 15) \div total_pages)))
    /\ UNCHANGED <<docs, files, progress, runs, tasks, httpRetry, collections,
                   points, nextId, nextDoc, requests, resp, overlapped>>

\* extract_pdf_text_task after the loop: the emptiness test and the return
ExtractReturn ==
    /\ call.fn = "extract_pdf_text_task"
    /\ call.task = "running"
    /\ call.at > Len(call.pages)
    /\ call' = IF call.pages_data = <<>>
               THEN [call EXCEPT !.task = "raised",
                                 !.error = "No text could be extracted from PDF"]
               ELSE [call EXCEPT !.task = "returned"]
    /\ written' = Append(written, Write("extract",
                                        IF call.pages_data = <<>> THEN 0 ELSE 25))
    /\ UNCHANGED <<docs, files, progress, runs, tasks, httpRetry, collections,
                   points, nextId, nextDoc, requests, resp, overlapped>>

NextOcr == ExtractPage \/ ExtractReturn

SpecOcr == InitOcr /\ [][NextOcr]_vars

\* the page is in the extraction result
InResult(page_number) ==
    \E k \in 1 .. Len(call.pages_data) : call.pages_data[k].page_number = page_number

\* C26: a page whose embedded text has 50 characters or more is returned with
\* that text and method "text_extraction"; a page with fewer than 50 falls
\* back to OCR, whose text is accepted (method "ocr") only if it has more than
\* 10 characters; otherwise the page is "failed", has no text and is left out
\* of the extraction result.
C26_FallbackBelowFifty ==
    call.fn = "extract_pdf_text_task" =>
        \A i \in 1 .. Len(call.page_results) :
            LET page == call.pages[i]
                res == call.page_results[i]
            IN /\ res.page_number = i
               /\ IF Len(Strip(page.text)) >= 50
                  THEN res.method = "text_extraction" /\ res.text = page.text
                  ELSE IF page.ocr.kind = "text" /\ Len(Strip(page.ocr.text)) > 10
                  THEN res.method = "ocr" /\ res.text = page.ocr.text
                  ELSE res.method = "failed" /\ res.text = <<>>
               /\ InResult(i) <=> res.method # "failed"

\* C27: when two runs of one tenant reach the vector write while the
\* tenant's collection does not exist, create_collection is never issued for
\* a collection that exists, and no run fails on the other run's creation.
C27_CollectionCreatedOnce ==
    [][\A r \in RunIds :
          CreateCollection(r) =>
              /\ TargetCollection(runs[r].tenant_id) \notin collections
              /\ runs'[r].pc = "batch"
              /\ progress'[runs[r].document_id].error # "Collection already exists"]_vars

\* ------------------------------------------ retry_failed_document_task
\* the rows a document id can have when the task reads it: none, or a
\* document of a tenant in one of the four statuses
RowOf(t, d, status) ==
    [present |-> TRUE, tenant_id |-> t, file_path |-> SavedPath(t, d),
     processing_status |-> status,
     total_chunks |-> IF status = "completed" THEN 1 ELSE NoChunks,
     error_message |-> IF status = "failed" THEN "boom" ELSE None,
     uploaded_by |-> UserOf(t)]
Rows(d) ==
    {NoRow} \cup {RowOf(t, d, status) :
                    t \in Tenants,
                    status \in {"pending", "processing", "completed", "failed"}}

\* the progress record and the run that go with a row
ProgressOf(row) ==
    CASE ~row.present -> NoKey
      [] row.processing_status = "pending" -> NoKey
      [] row.processing_status = "processing" ->
            [percent |-> 5, step |-> "starting", error |-> None]
      [] row.processing_status = "completed" ->
            [percent |-> 100, step |-> "completed", error |-> None]
      [] OTHER -> [percent |-> 0, step |-> "failed", error |-> "boom"]
RunOf(row, d) ==
    [NewRun(row.tenant_id, d, row.file_path, FALSE) EXCEPT
        !.pc = CASE row.processing_status = "pending" -> "queued"
                 [] row.processing_status = "processing" -> "extracting"
                 [] row.processing_status = "completed" -> "done"
                 [] OTHER -> "failed"]

\* any documents table, and one retry_failed_document_task message for any
\* tenant and any document id
InitRetry ==
    \E table \in [DocIds -> UNION {Rows(d) : d \in DocIds}],
       t \in Tenants, d \in DocIds :
        /\ \A e \in DocIds : table[e] \in Rows(e)
        /\ docs = table
        /\ files = [q \in {table[e].file_path : e \in {x \in DocIds : table[x].present}} |-> 1]
        /\ progress = [e \in DocIds |-> ProgressOf(table[e])]
        /\ runs = [r \in {<<e, 1>> : e \in {x \in DocIds : table[x].present}} |->
                      RunOf(table[r[1]], r[1])]
        /\ tasks = {RetryMessage(<<d, 2>>, t, d)}
        /\ httpRetry = [e \in DocIds |-> 0]
        /\ collections = {}
        /\ points = {}
        /\ nextId = [e \in DocIds |-> 2]
        /\ nextDoc = MaxDocs + 1
        /\ requests = 0
        /\ resp = Response("none", 0, "none")
        /\ overlapped = {d}
        /\ call = NoCall
        /\ written = <<>>

NextRetry == \E k \in tasks : RetryTaskCheck(k) \/ RetryTaskRequeue(k)

SpecRetry == InitRetry /\ [][NextRetry]_vars

\* C28: retry_failed_document_task called with a tenant that does not own the
\* document, or for a document that does not exist, raises, queues no pipeline
\* run and leaves the document's status, error_message and progress unchanged.
C28_ForeignRetryRefused ==
    [][/\ \A k \in tasks :
            LET d == k.document_id
            IN (RetryTaskCheck(k) /\ ~(docs[d].present /\ docs[d].tenant_id = k.tenant_id)) =>
                  /\ resp' = Response("retry_task", d, "not found")
                  /\ tasks' = tasks \ {k}
                  /\ UNCHANGED <<docs, progress, runs>>
       /\ \A k \in tasks' :
            Accepted(k) => docs'[k.document_id].tenant_id = k.tenant_id]_vars

\* C28 witness: the task has refused a retry of a failed document that
\* belongs to another tenant; the document is still failed
C28_Witness ==
    \E d \in DocIds :
        /\ resp = Response("retry_task", d, "not found")
        /\ docs[d].present
        /\ Status(d) = "failed"
        /\ docs[d].error_message = "boom"
        /\ progress[d].percent = 0
        /\ LiveRuns(d) = {}
        /\ tasks = {}

\* the band of percent values the spec gives each stage
StageRange(stage) ==
    CASE stage = "extracting" -> 5 .. 25
      [] stage = "chunk" -> 30 .. 50
      [] stage = "embed" -> 55 .. 75
      [] stage = "upsert" -> 80 .. 100

\* the value the step writes to the progress store
LastWritten == written'[Len(written')].percent

\* C29: every percent a stage writes lies in the stage's band (extraction
\* 5..25, chunking 30..50, embedding 55..75, vector write 80..100) for every
\* page count; a failure and a retry write 0; every stored percent is in 0..100.
C29_PercentInStageBand ==
    [][/\ \A r \in RunIds :
            /\ ProgressWrite(r) =>
                  /\ LastWritten \in
                        StageRange(IF runs'[r].pc = "done" THEN "upsert" ELSE runs'[r].pc)
                  /\ progress'[runs[r].document_id].percent = LastWritten
            /\ (\E msg \in StageErrors : ProgressFail(r, msg)) =>
                  /\ LastWritten = 0
                  /\ progress'[runs[r].document_id].percent = 0
       /\ \A d \in DocIds : ProgressRetry(d) =>
            LastWritten = 0 /\ progress'[d].percent = 0
       /\ Len(written') = Len(written) + 1
       /\ \A d \in DocIds :
            progress'[d] # NoKey => progress'[d].percent \in 0 .. 100]_vars

\* C29 witness: a run on a PDF of three pages has written 15, 20 and 25 for
\* its pages and has completed, after an earlier run's 0
C29_Witness ==
    \E r \in RunIds :
        /\ runs[r].pc = "done"
        /\ files[runs[r].file_path] = 3
        /\ \E i \in 1 .. Len(WritesBy(r)) - 2 :
              /\ WritesBy(r)[i].percent = 15
              /\ WritesBy(r)[i + 1].percent = 20
              /\ WritesBy(r)[i + 2].percent = 25
        /\ \E i \in 1 .. Len(written) : written[i].percent = 0

\* ------------------------------------- upsert_to_qdrant_with_metadata
\* the callers that write vectors at the same time
Writers == {1, 2}

\* chunks_with_metadata, each embedding by its length
EmbeddingBatches == {<<>>, <<384>>, <<384, 384>>, <<768, 768>>}

\* a collection that does not exist has no vector size
NoSize == 0
CollectionNames == {CollectionName(t) : t \in Tenants}

\* mutant: the collection is always created with the default size
VectorSizeDefault(chunks_with_metadata) == 768

\* vector_size of upsert_to_qdrant_with_metadata
VectorSize(chunks_with_metadata) ==
    IF chunks_with_metadata # <<>> THEN chunks_with_metadata[1] ELSE 768

\* what Qdrant has been asked and has done, in order
Event(op, by, name, size) == [op |-> op, by |-> by, name |-> name, size |-> size]

UpsertInputs ==
    {[fn |-> "upsert_to_qdrant_with_metadata", size0 |-> sizes, size |-> sizes,
      writers |-> ws, log |-> <<>>] :
        sizes \in [CollectionNames -> {NoSize, 384, 768}],
        ws \in [Writers -> [tenant_id : Tenants, embeddings : EmbeddingBatches,
                            pc : {"start"}]]}

InitUpsert ==
    /\ NothingStored
    /\ written = <<>>
    /\ call \in UpsertInputs

\* ensure_collection_exists: get_collections and the membership test
EnsureCheck(w) ==
    /\ call.fn = "upsert_to_qdrant_with_metadata"
    /\ call.writers[w].pc = "start"
    /\ LET name == CollectionName(call.writers[w].tenant_id)
       IN call' = [call EXCEPT
             !.writers[w].pc = IF call.size[name] = NoSize THEN "create" ELSE "upsert",
             !.log = Append(@, Event("check", w, name, call.size[name]))]
    /\ UNCHANGED <<docs, files, progress, runs, tasks, httpRetry, collections,
                   points, nextId, nextDoc, requests, resp, overlapped, written>>

\* ensure_collection_exists: create_collection with the size of the caller's
\* first embedding (Qdrant refuses to create a collection that exists)
EnsureCreate(w) ==
    /\ call.fn = "upsert_to_qdrant_with_metadata"
    /\ call.writers[w].pc = "create"
    /\ LET name == CollectionName(call.writers[w].tenant_id)
           vector_size == VectorSize(call.writers[w].embeddings)
       IN call' = IF call.size[name] # NoSize
                  THEN [call EXCEPT !.writers[w].pc = "raised"]
                  ELSE [call EXCEPT
                          !.size[name] = vector_size,
                          !.writers[w].pc = "upsert",
                          !.log = Append(@, Event("create", w, name, vector_size))]
    /\ UNCHANGED <<docs, files, progress, runs, tasks, httpRetry, collections,
                   points, nextId, nextDoc, requests, resp, overlapped, written>>

\* the batch loop: client.upsert of the points (Qdrant refuses a vector of
\* another length than the collection's size); no call for an empty list
UpsertPoints(w) ==
    /\ call.fn = "upsert_to_qdrant_with_metadata"
    /\ call.writers[w].pc = "upsert"
    /\ LET name == CollectionName(call.writers[w].tenant_id)
           embeddings == call.writers[w].embeddings
       IN call' =
            IF embeddings = <<>>
            THEN [call EXCEPT !.writers[w].pc = "done"]
            ELSE IF \E i \in 1 .. Len(embeddings) : embeddings[i] # call.size[name]
            THEN [call EXCEPT !.writers[w].pc = "raised"]
            ELSE [call EXCEPT
                    !.writers[w].pc = "done",
                    !.log = Append(@, Event("upsert", w, name, embeddings[1]))]
    /\ UNCHANGED <<docs, files, progress, runs, tasks, httpRetry, collections,
                   points, nextId, nextDoc, requests, resp, overlapped, written>>

NextUpsert ==
    \/ \E w \in Writers : EnsureCheck(w)
    \/ \E w \in Writers : EnsureCreate(w)
    \/ \E w \in Writers : UpsertPoints(w)

SpecUpsert == InitUpsert /\ [][NextUpsert]_vars

\* C30: a collection's vector size is fixed when it is created, to the length
\* of the first embedding of the batch being written; no later upsert creates
\* the collection again or changes its size, and every upsert follows the
\* writer's create-if-absent check.
C30_VectorSizeFixed ==
    call.fn = "upsert_to_qdrant_with_metadata" =>
        /\ \A name \in CollectionNames :
              call.size0[name] # NoSize =>
                 /\ call.size[name] = call.size0[name]
                 /\ \A i \in 1 .. Len(call.log) :
                       ~(call.log[i].op = "create" /\ call.log[i].name = name)
        /\ \A i \in 1 .. Len(call.log) :
              LET e == call.log[i]
                  batch == call.writers[e.by].embeddings
              IN /\ e.name = CollectionName(call.writers[e.by].tenant_id)
                 /\ e.op = "create" =>
                       /\ e.size = IF batch # <<>> THEN batch[1] ELSE 768
                       /\ call.size[e.name] = e.size
                       /\ \A j \in 1 .. Len(call.log) :
                             (call.log[j].op = "create" /\ call.log[j].name = e.name) => j = i
                 /\ e.op = "upsert" =>
                       /\ call.size[e.name] = e.size
                       /\ \E j \in 1 .. i - 1 :
                             call.log[j].op = "check" /\ call.log[j].by = e.by
        /\ \A name \in CollectionNames :
              (call.size0[name] = NoSize /\ call.size[name] # NoSize) =>
                 \E i \in 1 .. Len(call.log) :
                    call.log[i].op = "create" /\ call.log[i].name = name

\* C30 witness: one writer created the tenant's collection with size 384 and
\* wrote; the other, with embeddings of length 768, was refused; the size is 384
C30_Witness ==
    /\ call.fn = "upsert_to_qdrant_with_metadata"
    /\ \E w, v \in Writers :
          /\ call.writers[w].tenant_id = call.writers[v].tenant_id
          /\ call.writers[w].embeddings = <<384, 384>>
          /\ call.writers[w].pc = "done"
          /\ call.writers[v].embeddings = <<768, 768>>
          /\ call.writers[v].pc = "raised"
          /\ call.size0[CollectionName(call.writers[w].tenant_id)] = NoSize
          /\ call.size[CollectionName(call.writers[w].tenant_id)] = 384
          /\ \E i \in 1 .. Len(call.log) :
                call.log[i] = Event("upsert", w, CollectionName(call.writers[w].tenant_id), 384)

====
